---- MODULE Spec2Model ----
(***************************************************************************)
(* GenAI art generator: the request-orchestration pipeline                 *)
(*   HTTP facade -> ImageGenerationService -> LangChain strategy           *)
(*   (prompt enhancer, provider client) -> FileImageRepository,            *)
(* and the read side (retrieve, download, list) over the same repository.  *)
(*                                                                         *)
(* Text that the code inspects character by character (prompts and chat    *)
(* completions) is a sequence of one-character strings; opaque text        *)
(* (URLs, enum tags, error messages) is a TLA+ string.                     *)
(***************************************************************************)
EXTENDS Integers, Sequences, FiniteSets, TLC

VARIABLES
    provider,       \* AppConfig.provider
    openaiApiKey,   \* AppConfig.openaiApiKey ("" when unset)
    geminiApiKey,   \* AppConfig.geminiApiKey ("" when unset)
    server,         \* "boot" | "running" | "fatal"
    chatModel,      \* LangChainImageGenerationStrategy.chatModel
    imageClient,    \* LangChainImageGenerationStrategy.imageClient
    imageFile,      \* <id>.png in the storage root: "absent" | "partial" | "complete"
    metaFile,       \* <id>.json in the storage root
    nextId,         \* number of identifiers uuidv4 has handed out
    clock,          \* the wall clock read by new Date()
    run,            \* one record per Generate request being handled
    reply,          \* what the last Retrieve, Download or List request was answered
    request         \* an ImageGenerationRequest constructed directly

vars == <<provider, openaiApiKey, geminiApiKey, server, chatModel, imageClient,
          imageFile, metaFile, nextId, clock, run, reply, request>>

configVars == <<provider, openaiApiKey, geminiApiKey>>
wiringVars == <<server, chatModel, imageClient>>
storeVars == <<imageFile, metaFile, nextId, clock>>
outVars == <<reply, request>>

-----------------------------------------------------------------------------
(* Bounds *)

\* Generate requests handled concurrently.
NumRuns == 2
\* Longest prompt of the single-request specification.
MaxLen == 2
\* Redirect responses one download follows before the model stops answering
\* with further redirects.
MaxRedirects == 1

\* Identifiers whose files are in the storage root when the process starts.
MaxStored == 3

Runs == 1..NumRuns
\* Identifiers of stored files: those uuidv4 hands out to the requests, then
\* those found at start.
StoredIds == (NumRuns + 1)..(NumRuns + MaxStored)
Ids == 1..(NumRuns + MaxStored)

-----------------------------------------------------------------------------
(* Text *)

Alphabet == {"a", " "}

StringsUpTo(n) == UNION {[1..k -> Alphabet] : k \in 0..n}

\* Some of the characters String.prototype.trim removes.
WhiteSpace == {" ", "\t", "\n"}

IsWhiteSpace(c) == c \in WhiteSpace

RECURSIVE TrimStart(_)
TrimStart(s) ==
    IF s # <<>> /\ IsWhiteSpace(Head(s)) THEN TrimStart(Tail(s)) ELSE s

RECURSIVE TrimEnd(_)
TrimEnd(s) ==
    IF s # <<>> /\ IsWhiteSpace(s[Len(s)])
    THEN TrimEnd(SubSeq(s, 1, Len(s) - 1))
    ELSE s

\* String.prototype.trim
Trim(s) == TrimEnd(TrimStart(s))

-----------------------------------------------------------------------------
(* Values of a JSON request body *)

Undefined == [type |-> "undefined", str |-> <<>>, num |-> 0]
Number(n) == [type |-> "number", str |-> <<>>, num |-> n]
String(s) == [type |-> "string", str |-> s, num |-> 0]

\* !v is false
Truthy(v) ==
    CASE v.type = "undefined" -> FALSE
      [] v.type = "number" -> v.num # 0
      [] v.type = "string" -> Len(v.str) > 0

\* An optional enum-like field of the body: absent, or the text sent.
Absent == [present |-> FALSE, val |-> ""]
Given(v) == [present |-> TRUE, val |-> v]

\* const { size = d } = req.body
OrDefault(field, d) == IF field.present THEN field.val ELSE d

ImageSize == {"1024x1024", "1792x1024", "1024x1792"}
ImageQuality == {"standard", "hd"}

-----------------------------------------------------------------------------
(* Configuration and wiring *)

EnvProviders == {"", "openai", "gemini", "Gemini", "midjourney"}

ToLowerCase(s) == IF s = "Gemini" THEN "gemini" ELSE s

\* AppConfig constructor: PROVIDER || ... || 'openai', lowercased; anything
\* but 'gemini' selects OpenAI.
ProviderOf(env) ==
    LET p == ToLowerCase(IF env = "" THEN "openai" ELSE env)
    IN  IF p = "gemini" THEN "gemini" ELSE "openai"

\* AppConfig.validate
ConfigValid ==
    /\ ~(provider = "openai" /\ openaiApiKey = "")
    /\ ~(provider = "gemini" /\ geminiApiKey = "")

\* LLMFactory.createChatModel: the model of the configured provider, or a throw.
CreateChatModel ==
    IF provider = "openai"
    THEN (IF openaiApiKey = "" THEN "throw" ELSE "openai")
    ELSE (IF geminiApiKey = "" THEN "throw" ELSE "gemini")

\* ImageGenerationClientFactory.createClient() with no argument: the client of
\* the configured provider; each client's constructor throws without its key.
CreateClient ==
    IF provider = "openai"
    THEN (IF openaiApiKey = "" THEN "throw" ELSE "openai")
    ELSE (IF geminiApiKey = "" THEN "throw" ELSE "gemini")

-----------------------------------------------------------------------------
(* Metadata Store: FileImageRepository and ImageMetadata *)

\* Date.prototype.toISOString, and new Date(value) read back as milliseconds
\* (-1 stands for an Invalid Date, whose time value is NaN).
ToISOString(ms) == [type |-> "iso", ms |-> ms]
ParseDate(v) == IF v.type = "iso" THEN v.ms ELSE -1
IsInvalidDate(ms) == ms < 0

\* Values of the createdAt field of a metadata file that are not what toJSON
\* writes: the field is missing, or holds text that is not a date.
MissingDate == [type |-> "undefined", ms |-> 0]
TextNotADate == [type |-> "text", ms |-> 0]

\* ImageMetadata.toJSON
ToJSON(m) ==
    [id |-> m.id, prompt |-> m.prompt, createdAt |-> ToISOString(m.createdAt),
     size |-> m.size, quality |-> m.quality]

\* ImageMetadata.fromJSON
FromJSON(d) ==
    [id |-> d.id, prompt |-> d.prompt, createdAt |-> ParseDate(d.createdAt),
     size |-> d.size, quality |-> d.quality]

NoMetadata == [id |-> 0, prompt |-> <<>>, createdAt |-> 0, size |-> "", quality |-> ""]
NoFile == [kind |-> "none", data |-> ToJSON(NoMetadata)]
JsonFile(d) == [kind |-> "json", data |-> d]
\* A metadata file JSON.parse throws on.
GarbageFile == [kind |-> "garbage", data |-> ToJSON(NoMetadata)]

\* Date.prototype.toISOString throws a RangeError on an Invalid Date, and so
\* does ImageMetadata.toJSON.
ToJSONThrows(m) == IsInvalidDate(m.createdAt)

\* FileImageRepository.findById
FindById(meta, id) ==
    IF id \notin DOMAIN meta \/ meta[id].kind = "none"
    THEN [found |-> FALSE, metadata |-> NoMetadata]
    ELSE IF meta[id].kind = "json"
         THEN [found |-> TRUE, metadata |-> FromJSON(meta[id].data)]
         ELSE [found |-> FALSE, metadata |-> NoMetadata]

\* Variant: an image counts as stored only once its metadata file is there.
ExistsWithMetadata(img, id) ==
    id \in DOMAIN img /\ img[id] # "absent" /\ metaFile[id].kind # "none"

\* FileImageRepository.exists
Exists(img, id) == id \in DOMAIN img /\ img[id] # "absent"

\* The names readdirSync can yield for the *.json files, in any order.
ScanOrders(meta) ==
    LET ids == {i \in DOMAIN meta : meta[i].kind # "none"}
    IN  {o \in [1..Cardinality(ids) -> ids] : \A i, j \in DOMAIN o : i # j => o[i] # o[j]}

\* The comparator (a, b) => b.createdAt.getTime() - a.createdAt.getTime():
\* a difference with NaN is NaN, which sort reads as 0.
CompareNewestFirst(a, b) ==
    IF IsInvalidDate(a.createdAt) \/ IsInvalidDate(b.createdAt)
    THEN 0
    ELSE b.createdAt - a.createdAt

\* Array.prototype.sort with that comparator: a stable insertion of each
\* element after the last element the comparator does not put behind it.
RECURSIVE SortNewestFirst(_)
SortNewestFirst(s) ==
    IF s = <<>> THEN <<>>
    ELSE LET rest == SortNewestFirst(SubSeq(s, 1, Len(s) - 1))
             x == s[Len(s)]
             notBehind == {i \in DOMAIN rest : CompareNewestFirst(rest[i], x) <= 0}
             k == IF notBehind = {} THEN 0
                  ELSE CHOOSE i \in notBehind : \A j \in notBehind : j <= i
         IN  SubSeq(rest, 1, k) \o <<x>> \o SubSeq(rest, k + 1, Len(rest))

\* FileImageRepository.findAll over one directory scan order
RECURSIVE ParseAll(_, _)
ParseAll(meta, order) ==
    IF order = <<>> THEN <<>>
    ELSE LET f == meta[Head(order)]
         IN  (IF f.kind = "json" THEN <<FromJSON(f.data)>> ELSE <<>>)
             \o ParseAll(meta, Tail(order))

FindAll(meta, order) == SortNewestFirst(ParseAll(meta, order))

-----------------------------------------------------------------------------
(* Read side of ImageGenerationService *)

\* The text of a TLA+ string, one character per element.
Chars(s) == [i \in 1..Len(s) |-> SubSeq(s, i, i)]

UpperCaseLetters == Chars("ABCDEFGHIJKLMNOPQRSTUVWXYZ")
LowerCaseLetters == Chars("abcdefghijklmnopqrstuvwxyz")
Digits == Chars("0123456789")

\* The characters /[^a-z0-9]/gi leaves alone.
IsAlphaNumeric(c) ==
    \/ \E i \in DOMAIN UpperCaseLetters : c = UpperCaseLetters[i] \/ c = LowerCaseLetters[i]
    \/ \E i \in DOMAIN Digits : c = Digits[i]

\* String.prototype.toLowerCase, one character
ToLowerCaseChar(c) ==
    IF \E i \in DOMAIN UpperCaseLetters : c = UpperCaseLetters[i]
    THEN LowerCaseLetters[CHOOSE i \in DOMAIN UpperCaseLetters : c = UpperCaseLetters[i]]
    ELSE c

\* The length substring(0, 50) cuts the prompt to.
SlugLength == 50

\* Variant: the prompt is not cut before it is sanitized.
SanitizePromptUncut(prompt) ==
    [i \in DOMAIN prompt |->
        IF IsAlphaNumeric(prompt[i]) THEN ToLowerCaseChar(prompt[i]) ELSE "-"]

\* Variant: a run of characters outside a-z, 0-9 becomes a single dash.
SanitizePromptCollapsing(prompt) ==
    LET cut == SubSeq(prompt, 1, IF Len(prompt) < SlugLength THEN Len(prompt) ELSE SlugLength)
        kept == {i \in DOMAIN cut : IsAlphaNumeric(cut[i]) \/ i = 1 \/ IsAlphaNumeric(cut[i - 1])}
        Nth(n) == CHOOSE i \in kept : Cardinality({j \in kept : j < i}) = n - 1
    IN  [n \in 1..Cardinality(kept) |->
            IF IsAlphaNumeric(cut[Nth(n)]) THEN ToLowerCaseChar(cut[Nth(n)]) ELSE "-"]

\* prompt.substring(0, 50).replace(/[^a-z0-9]/gi, '-').toLowerCase()
SanitizePrompt(prompt) ==
    LET cut == SubSeq(prompt, 1, IF Len(prompt) < SlugLength THEN Len(prompt) ELSE SlugLength)
    IN  [i \in DOMAIN cut |->
            IF IsAlphaNumeric(cut[i]) THEN ToLowerCaseChar(cut[i]) ELSE "-"]

\* The identifier as it is written in file names and URLs.
IdText(id) == IF id = NumRuns + 1 THEN Chars("abc123") ELSE Chars("id" \o ToString(id))

\* ImageGenerationService.getDownloadFilename
GetDownloadFilename(meta, id) ==
    LET metadata == FindById(meta, id)
    IN  IF ~metadata.found
        THEN Chars("artwork-") \o IdText(id) \o Chars(".png")
        ELSE Chars("artwork-") \o SanitizePrompt(metadata.metadata.prompt)
                 \o Chars("-") \o IdText(id) \o Chars(".png")

Threw(message) == [threw |-> TRUE, message |-> message]
Returned == [threw |-> FALSE, message |-> ""]

\* Variant: the image file is looked for first and served when it is there.
GetImageByIdFileFirst(meta, img, id) ==
    LET metadata == FindById(meta, id)
    IN  IF Exists(img, id) /\ ~metadata.found THEN Returned
        ELSE IF ~metadata.found THEN Threw("Image not found")
        ELSE IF ~Exists(img, id) THEN Threw("Image file not found")
        ELSE IF ToJSONThrows(metadata.metadata) THEN Threw("Invalid time value")
        ELSE Returned

\* Variant: a missing image file is reported with the message of a missing record.
GetImageByIdOneMessage(meta, img, id) ==
    LET metadata == FindById(meta, id)
    IN  IF ~metadata.found THEN Threw("Image not found")
        ELSE IF ~Exists(img, id) THEN Threw("Image not found")
        ELSE IF ToJSONThrows(metadata.metadata) THEN Threw("Invalid time value")
        ELSE Returned

\* ImageGenerationService.getImageById: what it throws, if it does.
GetImageById(meta, img, id) ==
    LET metadata == FindById(meta, id)
    IN  IF ~metadata.found THEN Threw("Image not found")
        ELSE IF ~Exists(img, id) THEN Threw("Image file not found")
        ELSE IF ToJSONThrows(metadata.metadata) THEN Threw("Invalid time value")
        ELSE Returned

-----------------------------------------------------------------------------
(* Prompt Enhancer *)

ChatError == [kind |-> "error", text |-> <<>>]
ChatText(t) == [kind |-> "text", text |-> t]

\* Variant: the length test looks at the completion as received.
EnhanceRawLength(originalPrompt, completion) ==
    IF completion.kind = "text"
    THEN IF completion.text # <<>> /\ Len(completion.text) > Len(originalPrompt)
         THEN Trim(completion.text)
         ELSE originalPrompt
    ELSE originalPrompt

\* LangChainImageGenerationStrategy.enhancePromptWithLangChain, given what
\* chatModel.invoke did.
Enhance(originalPrompt, completion) ==
    IF completion.kind = "text"
    THEN IF completion.text # <<>> /\ Len(Trim(completion.text)) > Len(originalPrompt)
         THEN Trim(completion.text)
         ELSE originalPrompt
    ELSE originalPrompt

-----------------------------------------------------------------------------
(* One Generate request *)

NoRequest == [prompt |-> <<>>, size |-> "", quality |-> ""]
NoCompletion == [kind |-> "none", text |-> <<>>]
NoResponse ==
    [status |-> 0, keys |-> {}, error |-> "", message |-> "", success |-> FALSE,
     imageId |-> 0, imageUrl |-> "", prompt |-> <<>>]
NoBody == [prompt |-> Undefined, size |-> Absent, quality |-> Absent]
NoApiResult == [kind |-> "none", message |-> "", url |-> ""]
NoHttp == [kind |-> "none", statusCode |-> 0, location |-> FALSE]
\* The arguments of FileImageRepository.save, and the clock when it was
\* called and when it returned.
NoSave ==
    [called |-> FALSE, imageUrl |-> "", prompt |-> <<>>, size |-> "", quality |-> "",
     startedAt |-> 0, returnedAt |-> 0]

\* No Retrieve, Download or List request has been answered yet. found is what
\* findAll returned to the service, images what the service returned.
NoReply ==
    [op |-> "none", id |-> 0, status |-> 0, error |-> "", sent |-> "absent",
     filename |-> <<>>, found |-> <<>>, images |-> <<>>]

\* new ImageGenerationRequest(prompt, size, quality) outside a Generate request
NoConstruction ==
    [state |-> "none", prompt |-> <<>>, size |-> "", quality |-> "", message |-> ""]

IdleRun ==
    [pc |-> "idle", body |-> NoBody, req |-> NoRequest,
     completion |-> NoCompletion, enhanced |-> <<>>, clientPrompt |-> <<>>,
     api |-> NoApiResult, save |-> NoSave, id |-> 0, http |-> NoHttp,
     hops |-> 0, cause |-> "", calls |-> <<>>, response |-> NoResponse]

Init ==
    /\ \E env \in EnvProviders : provider = ProviderOf(env)
    /\ openaiApiKey \in {"", "sk-key"}
    /\ geminiApiKey \in {"", "g-key"}
    /\ server = "boot"
    /\ chatModel = "none"
    /\ imageClient = "none"
    /\ imageFile = [i \in Ids |-> "absent"]
    /\ metaFile = [i \in Ids |-> NoFile]
    /\ nextId = 0
    /\ clock = 0
    /\ run = [r \in Runs |-> IdleRun]
    /\ reply = NoReply
    /\ request = NoConstruction

\* Variant: the process starts serving without looking at the credentials.
StartupUnchecked ==
    /\ server = "boot"
    /\ server' = "running"
    /\ chatModel' = provider
    /\ imageClient' = provider
    /\ UNCHANGED <<configVars, storeVars, run, outVars>>

\* Process start: AppConfig.getInstance(), then the module-level wiring of
\* imageRoutes.ts. A throw at either place ends the process.
Startup ==
    /\ server = "boot"
    /\ IF ConfigValid /\ CreateChatModel # "throw" /\ CreateClient # "throw"
       THEN /\ server' = "running"
            /\ chatModel' = CreateChatModel
            /\ imageClient' = CreateClient
       ELSE /\ server' = "fatal"
            /\ UNCHANGED <<chatModel, imageClient>>
    /\ UNCHANGED <<configVars, storeVars, run, outVars>>


-----------------------------------------------------------------------------
(* Generation pipeline *)

Wrap(message) == "Failed to generate image: " \o message

\* ImageController.generate, catch branch
Response500(message) ==
    [NoResponse EXCEPT !.status = 500, !.keys = {"error", "message"},
                       !.error = "Failed to generate image", !.message = message]

\* Variant: the public URL is not derived from the identifier.
Response200BareUrl(id, prompt) ==
    [NoResponse EXCEPT !.status = 200,
                       !.keys = {"success", "imageId", "imageUrl", "prompt"},
                       !.success = TRUE, !.imageId = id,
                       !.imageUrl = "/api/images/",
                       !.prompt = prompt]

\* ImageController.generate, res.json({success: true, ...result}), with the
\* result ImageGenerationService.generateImage returns: keys are the names of
\* the fields of the JSON body.
Response200(id, prompt) ==
    [NoResponse EXCEPT !.status = 200,
                       !.keys = {"success", "imageId", "imageUrl", "prompt"},
                       !.success = TRUE, !.imageId = id,
                       !.imageUrl = "/api/images/" \o ToString(id),
                       !.prompt = prompt]

Response400 ==
    [NoResponse EXCEPT !.status = 400, !.keys = {"error"},
                       !.error = "Prompt is required"]

\* Variant: validate only rejects the empty string.
RequestValidNoTrim(prompt) == prompt # <<>>

\* ImageGenerationRequest.validate
RequestValid(prompt) == prompt # <<>> /\ Len(Trim(prompt)) # 0

\* new ImageGenerationRequest(prompt, size, quality): the object, or the
\* error validate throws.
NewImageGenerationRequest(prompt, size, quality) ==
    /\ request' = IF RequestValid(prompt)
                  THEN [NoConstruction EXCEPT !.state = "built", !.prompt = prompt,
                                              !.size = size, !.quality = quality]
                  ELSE [NoConstruction EXCEPT !.state = "threw", !.prompt = prompt,
                                              !.message = "Prompt cannot be empty"]
    /\ UNCHANGED <<configVars, wiringVars, storeVars, run, reply>>

\* ImageController.generate up to the first outbound call: the body is
\* checked, the request object is built and the service asks the strategy,
\* which asks the enhancer.
Generate(r, body) ==
    /\ server = "running"
    /\ run[r].pc = "idle"
    /\ LET prompt == body.prompt
           size == OrDefault(body.size, "1024x1024")
           quality == OrDefault(body.quality, "standard")
       IN  IF ~Truthy(prompt) \/ prompt.type # "string"
           THEN run' = [run EXCEPT ![r].pc = "done", ![r].body = body,
                                   ![r].response = Response400]
           ELSE IF ~RequestValid(prompt.str)
           THEN run' = [run EXCEPT ![r].pc = "done", ![r].body = body,
                                   ![r].response = Response500("Prompt cannot be empty")]
           ELSE run' = [run EXCEPT ![r].pc = "enhance", ![r].body = body,
                                   ![r].req = [prompt |-> prompt.str, size |-> size,
                                               quality |-> quality],
                                   ![r].calls = <<"enhance">>]
    /\ UNCHANGED <<configVars, wiringVars, outVars, storeVars>>

\* Variant: the enhancer has no catch, so a failed completion reaches the
\* strategy's and the service's catch blocks.
EnhanceReturnNoCatch(r, completion) ==
    /\ run[r].pc = "enhance"
    /\ IF completion.kind = "error"
       THEN run' = [run EXCEPT ![r].pc = "done",
                               ![r].completion = completion,
                               ![r].cause = "chat model failed",
                               ![r].calls = @ \o <<"enhance:done">>,
                               ![r].response =
                                   Response500(Wrap(Wrap("chat model failed")))]
       ELSE LET enhancedPrompt == Enhance(run[r].req.prompt, completion)
            IN  run' = [run EXCEPT ![r].pc = "generate",
                                   ![r].completion = completion,
                                   ![r].enhanced = enhancedPrompt,
                                   ![r].clientPrompt = enhancedPrompt,
                                   ![r].calls = @ \o <<"enhance:done", "generateImage">>]
    /\ UNCHANGED <<configVars, wiringVars, outVars, storeVars>>

\* chatModel.invoke settles; the strategy hands the enhancer's result to the
\* image client.
EnhanceReturn(r, completion) ==
    /\ run[r].pc = "enhance"
    /\ LET enhancedPrompt == Enhance(run[r].req.prompt, completion)
       IN  run' = [run EXCEPT ![r].pc = "generate",
                              ![r].completion = completion,
                              ![r].enhanced = enhancedPrompt,
                              ![r].clientPrompt = enhancedPrompt,
                              ![r].calls = @ \o <<"enhance:done", "generateImage">>]
    /\ UNCHANGED <<configVars, wiringVars, outVars, storeVars>>

\* Variant: the rejection is swallowed and the service goes on to the store.
StrategyThrewSwallowed(r, api, cause, message) ==
    /\ nextId < NumRuns
    /\ nextId' = nextId + 1
    /\ run' = [run EXCEPT ![r].pc = "download",
                          ![r].api = api,
                          ![r].cause = cause,
                          ![r].id = nextId + 1,
                          ![r].save = [called |-> TRUE, imageUrl |-> "",
                                       prompt |-> run[r].req.prompt,
                                       size |-> run[r].req.size,
                                       quality |-> run[r].req.quality,
                                       startedAt |-> clock, returnedAt |-> 0],
                          ![r].calls = @ \o <<"generateImage:done", "save">>]
    /\ UNCHANGED <<imageFile, metaFile, clock>>

\* The image client rejected with `message` (`cause` is the error it started
\* from): the strategy's and the service's catch blocks, then the controller's.
StrategyThrew(r, api, cause, message) ==
    /\ run' = [run EXCEPT ![r].pc = "done",
                          ![r].api = api,
                          ![r].cause = cause,
                          ![r].calls = @ \o <<"generateImage:done">>,
                          ![r].response = Response500(Wrap(Wrap(message)))]
    /\ UNCHANGED storeVars

\* Variant: the service hands the enhanced prompt to the store.
StrategyReturnedSavesEnhanced(r, api, imageUrl) ==
    IF imageUrl = ""
    THEN /\ run' = [run EXCEPT ![r].pc = "done",
                               ![r].api = api,
                               ![r].cause = "Image generation returned no URL",
                               ![r].calls = @ \o <<"generateImage:done">>,
                               ![r].response =
                                   Response500(Wrap("Image generation returned no URL"))]
         /\ UNCHANGED storeVars
    ELSE /\ nextId < NumRuns
         /\ nextId' = nextId + 1
         /\ run' = [run EXCEPT ![r].pc = "download",
                               ![r].api = api,
                               ![r].id = nextId + 1,
                               ![r].save = [called |-> TRUE, imageUrl |-> imageUrl,
                                            prompt |-> run[r].enhanced,
                                            size |-> run[r].req.size,
                                            quality |-> run[r].req.quality,
                                            startedAt |-> clock, returnedAt |-> 0],
                               ![r].calls = @ \o <<"generateImage:done", "save">>]
         /\ UNCHANGED <<imageFile, metaFile, clock>>

\* Variant: save gives every image the same identifier.
StrategyReturnedSameId(r, api, imageUrl) ==
    IF imageUrl = ""
    THEN /\ run' = [run EXCEPT ![r].pc = "done",
                               ![r].api = api,
                               ![r].cause = "Image generation returned no URL",
                               ![r].calls = @ \o <<"generateImage:done">>,
                               ![r].response =
                                   Response500(Wrap("Image generation returned no URL"))]
         /\ UNCHANGED storeVars
    ELSE /\ nextId < NumRuns
         /\ nextId' = nextId + 1
         /\ run' = [run EXCEPT ![r].pc = "download",
                               ![r].api = api,
                               ![r].id = 1,
                               ![r].save = [called |-> TRUE, imageUrl |-> imageUrl,
                                            prompt |-> run[r].req.prompt,
                                            size |-> run[r].req.size,
                                            quality |-> run[r].req.quality,
                                            startedAt |-> clock, returnedAt |-> 0],
                               ![r].calls = @ \o <<"generateImage:done", "save">>]
         /\ UNCHANGED <<imageFile, metaFile, clock>>

\* ImageGenerationService.generateImage once the strategy returned a URL:
\* the service's own check, then FileImageRepository.save up to the HTTP GET.
StrategyReturned(r, api, imageUrl) ==
    IF imageUrl = ""
    THEN /\ run' = [run EXCEPT ![r].pc = "done",
                               ![r].api = api,
                               ![r].cause = "Image generation returned no URL",
                               ![r].calls = @ \o <<"generateImage:done">>,
                               ![r].response =
                                   Response500(Wrap("Image generation returned no URL"))]
         /\ UNCHANGED storeVars
    ELSE /\ nextId < NumRuns
         /\ nextId' = nextId + 1
         /\ run' = [run EXCEPT ![r].pc = "download",
                               ![r].api = api,
                               ![r].id = nextId + 1,
                               ![r].save = [called |-> TRUE, imageUrl |-> imageUrl,
                                            prompt |-> run[r].req.prompt,
                                            size |-> run[r].req.size,
                                            quality |-> run[r].req.quality,
                                            startedAt |-> clock, returnedAt |-> 0],
                               ![r].calls = @ \o <<"generateImage:done", "save">>]
         /\ UNCHANGED <<imageFile, metaFile, clock>>

ApiError(m) == [kind |-> "error", message |-> m, url |-> ""]
ApiData(u) == [kind |-> "data", message |-> "", url |-> u]

\* Variant: the client returns whatever the first url of the result is.
OpenAIGenerateImageReturnUnchecked(r, api) ==
    /\ imageClient = "openai"
    /\ run[r].pc = "generate"
    /\ IF api.kind = "error"
       THEN StrategyThrew(r, api, api.message, Wrap(api.message))
       ELSE StrategyReturned(r, api, api.url)
    /\ UNCHANGED <<configVars, wiringVars, outVars>>

\* OpenAIImageGenerationClient.generateImage settles, given what
\* openai.images.generate did (an error, or data whose first url may be empty).
OpenAIGenerateImageReturn(r, api) ==
    /\ imageClient = "openai"
    /\ run[r].pc = "generate"
    /\ IF api.kind = "error"
       THEN StrategyThrew(r, api, api.message, Wrap(api.message))
       ELSE IF api.url = ""
       THEN StrategyThrew(r, api, "No image URL returned from OpenAI",
                          Wrap("No image URL returned from OpenAI"))
       ELSE StrategyReturned(r, api, api.url)
    /\ UNCHANGED <<configVars, wiringVars, outVars>>

\* Variant: the unimplemented client resolves with no URL instead of rejecting.
GeminiReturnsNothing(r) ==
    /\ imageClient = "gemini"
    /\ run[r].pc = "generate"
    /\ StrategyReturned(r, NoApiResult, "")
    /\ UNCHANGED <<configVars, wiringVars, outVars>>

\* GeminiImageGenerationClient.generateImage settles.
GeminiGenerateImageReturn(r) ==
    /\ imageClient = "gemini"
    /\ run[r].pc = "generate"
    /\ StrategyThrew(r, NoApiResult, "Not implemented", "Not implemented")
    /\ UNCHANGED <<configVars, wiringVars, outVars>>

\* Variant: a rejected save is tried again.
SaveThrewRetries(r, resp, message) ==
    run' = [run EXCEPT ![r].pc = "download",
                       ![r].http = resp,
                       ![r].hops = 0,
                       ![r].cause = message,
                       ![r].calls = @ \o <<"save:done", "save">>]

\* FileImageRepository.save rejected: the service's catch, then the controller's.
SaveThrew(r, resp, message) ==
    run' = [run EXCEPT ![r].pc = "done",
                       ![r].http = resp,
                       ![r].hops = 0,
                       ![r].cause = message,
                       ![r].calls = @ \o <<"save:done">>,
                       ![r].response = Response500(Wrap(message))]

NetworkError == [kind |-> "error", statusCode |-> 0, location |-> FALSE]
HttpResponse(code, loc) == [kind |-> "response", statusCode |-> code, location |-> loc]

\* Variant: every response that is not a 301 or 302 is piped into the file.
DownloadResponseNoStatusCheck(r, resp) ==
    /\ run[r].pc = "download"
    /\ IF resp.kind = "error"
       THEN SaveThrew(r, resp, "socket hang up")
       ELSE IF resp.statusCode = 301 \/ resp.statusCode = 302
       THEN IF resp.location
            THEN /\ run[r].hops < MaxRedirects
                 /\ run' = [run EXCEPT ![r].http = resp, ![r].hops = @ + 1]
            ELSE SaveThrew(r, resp, "Redirect without location header")
       ELSE run' = [run EXCEPT ![r].pc = "open", ![r].http = resp]
    /\ UNCHANGED <<configVars, wiringVars, outVars, storeVars>>

\* Variant: every 3xx response with a Location is followed.
DownloadResponseAnyRedirect(r, resp) ==
    /\ run[r].pc = "download"
    /\ IF resp.kind = "error"
       THEN SaveThrew(r, resp, "socket hang up")
       ELSE IF resp.statusCode = 200
       THEN run' = [run EXCEPT ![r].pc = "open", ![r].http = resp]
       ELSE IF resp.statusCode >= 300 /\ resp.statusCode < 400
       THEN IF resp.location
            THEN /\ run[r].hops < MaxRedirects
                 /\ run' = [run EXCEPT ![r].http = resp, ![r].hops = @ + 1]
            ELSE SaveThrew(r, resp, "Redirect without location header")
       ELSE SaveThrew(r, resp, "Failed to download image: " \o ToString(resp.statusCode))
    /\ UNCHANGED <<configVars, wiringVars, outVars, storeVars>>

\* Variant: only the first redirect is followed.
DownloadResponseOneRedirect(r, resp) ==
    /\ run[r].pc = "download"
    /\ IF resp.kind = "error"
       THEN SaveThrew(r, resp, "socket hang up")
       ELSE IF resp.statusCode = 200
       THEN run' = [run EXCEPT ![r].pc = "open", ![r].http = resp]
       ELSE IF resp.statusCode = 301 \/ resp.statusCode = 302
       THEN IF resp.location
            THEN IF run[r].hops >= 1
                 THEN SaveThrew(r, resp, "Too many redirects")
                 ELSE run' = [run EXCEPT ![r].http = resp, ![r].hops = @ + 1]
            ELSE SaveThrew(r, resp, "Redirect without location header")
       ELSE SaveThrew(r, resp, "Failed to download image: " \o ToString(resp.statusCode))
    /\ UNCHANGED <<configVars, wiringVars, outVars, storeVars>>

\* FileImageRepository.downloadImage: the callback of protocol.get, or its
\* 'error' event. hops is the depth of the recursion on redirects: the number
\* of redirects the download has followed.
DownloadResponse(r, resp) ==
    /\ run[r].pc = "download"
    /\ IF resp.kind = "error"
       THEN SaveThrew(r, resp, "socket hang up")
       ELSE IF resp.statusCode = 200
       THEN run' = [run EXCEPT ![r].pc = "open", ![r].http = resp]
       ELSE IF resp.statusCode = 301 \/ resp.statusCode = 302
       THEN IF resp.location
            THEN /\ run[r].hops < MaxRedirects
                 /\ run' = [run EXCEPT ![r].http = resp, ![r].hops = @ + 1]
            ELSE SaveThrew(r, resp, "Redirect without location header")
       ELSE SaveThrew(r, resp, "Failed to download image: " \o ToString(resp.statusCode))
    /\ UNCHANGED <<configVars, wiringVars, outVars, storeVars>>

\* Variant: the metadata is written as soon as the download has started,
\* as if save did not await downloadImage.
StreamOpenMetaFirst(r) ==
    /\ run[r].pc = "open"
    /\ imageFile' = [imageFile EXCEPT ![run[r].id] = "partial"]
    /\ metaFile' = [metaFile EXCEPT ![run[r].id] =
            JsonFile(ToJSON([id |-> run[r].id, prompt |-> run[r].save.prompt,
                             createdAt |-> clock, size |-> run[r].save.size,
                             quality |-> run[r].save.quality]))]
    /\ run' = [run EXCEPT ![r].pc = "pipe"]
    /\ UNCHANGED <<configVars, wiringVars, outVars, nextId, clock>>

\* fs.createWriteStream opened the file and the response is piped into it.
StreamOpen(r) ==
    /\ run[r].pc = "open"
    /\ imageFile' = [imageFile EXCEPT ![run[r].id] = "partial"]
    /\ run' = [run EXCEPT ![r].pc = "pipe"]
    /\ UNCHANGED <<configVars, wiringVars, outVars, metaFile, nextId, clock>>

\* fileStream.on('error', reject)
StreamError(r) ==
    /\ run[r].pc \in {"open", "pipe"}
    /\ SaveThrew(r, run[r].http, IF run[r].pc = "open" THEN "EACCES" ELSE "ENOSPC")
    /\ UNCHANGED <<configVars, wiringVars, outVars, storeVars>>

\* Variant: the record is stamped with the epoch instead of the current time.
StreamFinishEpoch(r, written) ==
    /\ run[r].pc = "pipe"
    /\ imageFile' = [imageFile EXCEPT ![run[r].id] = "complete"]
    /\ LET metadata == [id |-> run[r].id, prompt |-> run[r].save.prompt,
                        createdAt |-> 0, size |-> run[r].save.size,
                        quality |-> run[r].save.quality]
       IN  IF written
           THEN /\ metaFile' = [metaFile EXCEPT ![run[r].id] = JsonFile(ToJSON(metadata))]
                /\ run' = [run EXCEPT ![r].pc = "done",
                                      ![r].save.returnedAt = clock,
                                      ![r].calls = @ \o <<"save:done">>,
                                      ![r].response =
                                          Response200(run[r].id, run[r].req.prompt)]
           ELSE /\ SaveThrew(r, run[r].http, "ENOSPC")
                /\ UNCHANGED metaFile
    /\ UNCHANGED <<configVars, wiringVars, outVars, nextId, clock>>

\* fileStream 'finish': downloadImage resolves and save writes the metadata
\* (writeFileSync may throw), then the service and the controller answer.
StreamFinish(r, written) ==
    /\ run[r].pc = "pipe"
    /\ imageFile' = [imageFile EXCEPT ![run[r].id] = "complete"]
    /\ LET metadata == [id |-> run[r].id, prompt |-> run[r].save.prompt,
                        createdAt |-> clock, size |-> run[r].save.size,
                        quality |-> run[r].save.quality]
       IN  IF written
           THEN /\ metaFile' = [metaFile EXCEPT ![run[r].id] = JsonFile(ToJSON(metadata))]
                /\ run' = [run EXCEPT ![r].pc = "done",
                                      ![r].save.returnedAt = clock,
                                      ![r].calls = @ \o <<"save:done">>,
                                      ![r].response =
                                          Response200(run[r].id, run[r].req.prompt)]
           ELSE /\ SaveThrew(r, run[r].http, "ENOSPC")
                /\ UNCHANGED metaFile
    /\ UNCHANGED <<configVars, wiringVars, outVars, nextId, clock>>

\* Latest instant of the wall clock.
MaxClock == 2

\* Time passes between two steps of the process.
Tick ==
    /\ clock < MaxClock
    /\ clock' = clock + 1
    /\ UNCHANGED <<configVars, wiringVars, outVars, imageFile, metaFile, nextId, run>>

-----------------------------------------------------------------------------
(* Read handlers of ImageController. Every await of a read handler is on a
   promise that is already settled, so a handler runs to its response without
   another handler in between. *)

\* The catch block shared by getById and download.
ReadFailure(op, id, message, other) ==
    IF message \in {"Image not found", "Image file not found"}
    THEN [NoReply EXCEPT !.op = op, !.id = id, !.status = 404, !.error = message]
    ELSE [NoReply EXCEPT !.op = op, !.id = id, !.status = 500, !.error = other]

\* ImageController.getById
GetById(id) ==
    /\ server = "running"
    /\ LET result == GetImageById(metaFile, imageFile, id)
       IN  reply' = IF result.threw
                    THEN ReadFailure("getById", id, result.message, "Failed to serve image")
                    ELSE [NoReply EXCEPT !.op = "getById", !.id = id, !.status = 200,
                                         !.sent = imageFile[id]]
    /\ UNCHANGED <<configVars, wiringVars, storeVars, run, request>>

\* ImageController.download
Download(id) ==
    /\ server = "running"
    /\ LET result == GetImageById(metaFile, imageFile, id)
       IN  reply' = IF result.threw
                    THEN ReadFailure("download", id, result.message, "Failed to download image")
                    ELSE [NoReply EXCEPT !.op = "download", !.id = id, !.status = 200,
                                         !.sent = imageFile[id],
                                         !.filename = GetDownloadFilename(metaFile, id)]
    /\ UNCHANGED <<configVars, wiringVars, storeVars, run, request>>

\* Variant: listing removes the metadata files it could not parse.
ListAllPruning(order) ==
    /\ server = "running"
    /\ LET images == FindAll(metaFile, order)
       IN  reply' = IF \E i \in DOMAIN images : ToJSONThrows(images[i])
                    THEN [NoReply EXCEPT !.op = "listAll", !.status = 500,
                                         !.error = "Failed to list images",
                                         !.found = images]
                    ELSE [NoReply EXCEPT !.op = "listAll", !.status = 200,
                                         !.found = images,
                                         !.images = [i \in DOMAIN images |-> ToJSON(images[i])]]
    /\ metaFile' = [i \in Ids |-> IF metaFile[i].kind = "garbage" THEN NoFile ELSE metaFile[i]]
    /\ UNCHANGED <<configVars, wiringVars, imageFile, nextId, clock, run, request>>

\* ImageController.listAll over ImageGenerationService.getAllImages, for one
\* order of the directory scan.
ListAll(order) ==
    /\ server = "running"
    /\ LET images == FindAll(metaFile, order)
       IN  reply' = IF \E i \in DOMAIN images : ToJSONThrows(images[i])
                    THEN [NoReply EXCEPT !.op = "listAll", !.status = 500,
                                         !.error = "Failed to list images",
                                         !.found = images]
                    ELSE [NoReply EXCEPT !.op = "listAll", !.status = 200,
                                         !.found = images,
                                         !.images = [i \in DOMAIN images |-> ToJSON(images[i])]]
    /\ UNCHANGED <<configVars, wiringVars, storeVars, run, request>>

-----------------------------------------------------------------------------
(* Inputs from outside the process *)

\* One request body per way the prompt can be judged.
SampleBodies ==
    {[prompt |-> p, size |-> Absent, quality |-> Absent] :
        p \in {Undefined, Number(7), String(<<>>), String(<<" ">>), String(<<"a">>)}}

\* A failed completion and one that is longer than the sample prompt.
SampleCompletions == {ChatError, ChatText(<<"a", "a">>)}

SampleApiResults ==
    {ApiError("401 Incorrect API key provided"), ApiData(""),
     ApiData("https://cdn.example/img.png")}

SampleHttpResponses ==
    {NetworkError, HttpResponse(200, FALSE), HttpResponse(302, TRUE),
     HttpResponse(302, FALSE), HttpResponse(404, FALSE)}

\* A valid body with and without a size and a quality of its own.
TimedBodies ==
    {[prompt |-> String(<<"a">>), size |-> Absent, quality |-> Absent],
     [prompt |-> String(<<"a">>), size |-> Given("1792x1024"), quality |-> Given("hd")]}

\* One valid body and, for each outbound call, one outcome that lets the
\* request go on and one that does not.
MixedBodies == {[prompt |-> String(<<"a">>), size |-> Absent, quality |-> Absent]}
MixedCompletions == {ChatError}
MixedApiResults == {ApiData(""), ApiData("https://cdn.example/img.png")}
MixedHttpResponses == {HttpResponse(200, FALSE), HttpResponse(404, FALSE)}

\* Every prompt within the bounds a request can be constructed with.
RequestPrompts == UNION {[1..k -> {"a"} \cup WhiteSpace] : k \in 0..(MaxLen + 1)}

\* Every body, completion, API result and HTTP response within the bounds.
AllBodies ==
    {[prompt |-> p, size |-> s, quality |-> q] :
        p \in {Undefined, Number(0), Number(7)} \cup {String(t) : t \in StringsUpTo(MaxLen)},
        s \in {Absent, Given("1792x1024"), Given("512x512")},
        q \in {Absent, Given("hd")}}

AllCompletions == {ChatError} \cup {ChatText(t) : t \in StringsUpTo(MaxLen + 1)}

AllApiResults == SampleApiResults \cup {ApiError("429 Rate limit reached")}

StatusCodes == {200, 201, 204, 301, 302, 303, 307, 308, 404, 500}

AllHttpResponses ==
    {NetworkError} \cup {HttpResponse(c, l) : c \in StatusCodes, l \in BOOLEAN}

\* The storage root as an earlier process (or an edit of its files) left it.
\* The prompt of the record of each identifier.
StoredPrompt(id) ==
    IF id = NumRuns + 1 THEN Chars("A Beautiful!! Sunset@Sea") ELSE Chars("a")

StoredTimes == {1, 2, 3}

\* What <id>.json can hold: nothing, text that is not JSON, a record whose
\* createdAt is missing or is not a date, or a record as save wrote it at t.
StoredShapes ==
    {[kind |-> k, t |-> 0] : k \in {"none", "garbage", "missing", "text"}}
    \cup {[kind |-> "record", t |-> t] : t \in StoredTimes}

StoredMetaFile(id, shape) ==
    LET record == ToJSON([id |-> id, prompt |-> StoredPrompt(id), createdAt |-> shape.t,
                          size |-> "1024x1024", quality |-> "standard"])
    IN  CASE shape.kind = "none" -> NoFile
          [] shape.kind = "garbage" -> GarbageFile
          [] shape.kind = "missing" -> JsonFile([record EXCEPT !.createdAt = MissingDate])
          [] shape.kind = "text" -> JsonFile([record EXCEPT !.createdAt = TextNotADate])
          [] shape.kind = "record" -> JsonFile(record)

\* Prompts of stored records around the length the slug is cut at: a run of
\* one letter, then every text within the bounds over letters of both cases,
\* a digit, a dash, an underscore and a space.
SlugAlphabet == {"Q", "z", "7", "-", "_", " "}
Filler(n) == [i \in 1..n |-> "x"]
SlugPrompts ==
    {Filler(n) \o t :
        n \in {0, SlugLength - 2, SlugLength - 1, SlugLength},
        t \in UNION {[1..k -> SlugAlphabet] : k \in 0..(MaxLen + 1)}}

\* A storage root holding the image and the record of abc123, with any of
\* those prompts.
InitSlug ==
    /\ provider = "openai"
    /\ openaiApiKey = "sk-key"
    /\ geminiApiKey = ""
    /\ server = "boot"
    /\ chatModel = "none"
    /\ imageClient = "none"
    /\ \E prompt \in SlugPrompts :
        metaFile = [i \in Ids |->
                        IF i = NumRuns + 1
                        THEN JsonFile(ToJSON([id |-> i, prompt |-> prompt, createdAt |-> 1,
                                              size |-> "1024x1024", quality |-> "standard"]))
                        ELSE NoFile]
    /\ imageFile = [i \in Ids |-> IF i = NumRuns + 1 THEN "complete" ELSE "absent"]
    /\ nextId = 0
    /\ clock = 0
    /\ run = [r \in Runs |-> IdleRun]
    /\ reply = NoReply
    /\ request = NoConstruction

\* The image of the first stored identifier may be there or not whatever its
\* metadata file holds; the other identifiers have both files or neither.
InitStore ==
    /\ provider = "openai"
    /\ openaiApiKey = "sk-key"
    /\ geminiApiKey = ""
    /\ server = "boot"
    /\ chatModel = "none"
    /\ imageClient = "none"
    /\ \E shape \in [StoredIds -> StoredShapes], first \in {"absent", "complete"} :
        /\ metaFile = [i \in Ids |-> IF i \in StoredIds
                                     THEN StoredMetaFile(i, shape[i])
                                     ELSE NoFile]
        /\ imageFile = [i \in Ids |->
                            IF i = NumRuns + 1 THEN first
                            ELSE IF i \in StoredIds /\ shape[i].kind # "none"
                                 THEN "complete"
                                 ELSE "absent"]
    /\ nextId = 0
    /\ clock = 0
    /\ run = [r \in Runs |-> IdleRun]
    /\ reply = NoReply
    /\ request = NoConstruction

-----------------------------------------------------------------------------
(* Specifications *)

\* Concurrent Generate requests over sample inputs.
Next ==
    \/ Startup
    \/ \E r \in Runs :
        \/ \E body \in SampleBodies : Generate(r, body)
        \/ \E completion \in SampleCompletions : EnhanceReturn(r, completion)
        \/ \E api \in SampleApiResults : OpenAIGenerateImageReturn(r, api)
        \/ GeminiGenerateImageReturn(r)
        \/ \E resp \in SampleHttpResponses : DownloadResponse(r, resp)
        \/ StreamOpen(r)
        \/ StreamError(r)
        \/ \E written \in BOOLEAN : StreamFinish(r, written)

Spec == Init /\ [][Next]_vars

\* One Generate request over every input within the bounds.
NextSingle ==
    \/ Startup
    \/ \E body \in AllBodies : Generate(1, body)
    \/ \E completion \in AllCompletions : EnhanceReturn(1, completion)
    \/ \E api \in AllApiResults : OpenAIGenerateImageReturn(1, api)
    \/ GeminiGenerateImageReturn(1)
    \/ \E resp \in AllHttpResponses : DownloadResponse(1, resp)
    \/ StreamOpen(1)
    \/ StreamError(1)
    \/ \E written \in BOOLEAN : StreamFinish(1, written)

SpecSingle == Init /\ [][NextSingle]_vars

\* One Generate request while the wall clock advances.
NextTimed ==
    \/ Startup
    \/ Tick
    \/ \E body \in TimedBodies : Generate(1, body)
    \/ \E completion \in SampleCompletions : EnhanceReturn(1, completion)
    \/ \E api \in SampleApiResults : OpenAIGenerateImageReturn(1, api)
    \/ GeminiGenerateImageReturn(1)
    \/ \E resp \in SampleHttpResponses : DownloadResponse(1, resp)
    \/ StreamOpen(1)
    \/ StreamError(1)
    \/ \E written \in BOOLEAN : StreamFinish(1, written)

SpecTimed == Init /\ [][NextTimed]_vars

\* One request constructed directly, as a caller of the domain model would.
NextRequest ==
    /\ request = NoConstruction
    /\ \E prompt \in RequestPrompts, size \in ImageSize, quality \in ImageQuality :
            NewImageGenerationRequest(prompt, size, quality)

SpecRequest == Init /\ [][NextRequest]_vars

\* One Download request over a stored record with any prompt.
NextSlug ==
    \/ Startup
    \/ reply = NoReply /\ \E id \in Ids : Download(id)

SpecSlug == InitSlug /\ [][NextSlug]_vars

\* Generate requests and read requests side by side.
NextMixed ==
    \/ Startup
    \/ \E r \in Runs :
        \/ \E body \in MixedBodies : Generate(r, body)
        \/ \E completion \in MixedCompletions : EnhanceReturn(r, completion)
        \/ \E api \in MixedApiResults : OpenAIGenerateImageReturn(r, api)
        \/ GeminiGenerateImageReturn(r)
        \/ \E resp \in MixedHttpResponses : DownloadResponse(r, resp)
        \/ StreamOpen(r)
        \/ StreamError(r)
        \/ \E written \in BOOLEAN : StreamFinish(r, written)
    \/ \E id \in Ids : GetById(id)
    \/ \E id \in Ids : Download(id)
    \/ \E order \in ScanOrders(metaFile) : ListAll(order)

SpecMixed == Init /\ [][NextMixed]_vars

\* One read request over a storage root that was filled before the process
\* started (a read leaves the storage root as it is, so a second one would be
\* answered from the same files).
NextStore ==
    \/ Startup
    \/ reply = NoReply /\ \E id \in Ids : GetById(id)
    \/ reply = NoReply /\ \E id \in Ids : Download(id)
    \/ reply = NoReply /\ \E order \in ScanOrders(metaFile) : ListAll(order)

SpecStore == InitStore /\ [][NextStore]_vars

TypeOK ==
    /\ provider \in {"openai", "gemini"}
    /\ server \in {"boot", "running", "fatal"}
    /\ \A r \in Runs : run[r].pc \in {"idle", "enhance", "generate", "download", "open", "pipe", "done"}

-----------------------------------------------------------------------------
(* Claims *)

Called(r, op) == \E i \in DOMAIN run[r].calls : run[r].calls[i] = op

StoreEmpty == \A id \in Ids : imageFile[id] = "absent" /\ metaFile[id].kind = "none"

\* C1: whenever the metadata file of an id exists, the image file of that id
\* exists and its download has finished, for any interleaving of saves.
C1_MetadataOnlyAfterImage ==
    \A id \in Ids : metaFile[id].kind # "none" => imageFile[id] = "complete"

\* One save has written its record while another is still piping its image.
C1_Witness ==
    \E r1, r2 \in Runs :
        /\ r1 # r2
        /\ run[r1].response.status = 200
        /\ metaFile[run[r1].id].kind = "json"
        /\ run[r2].pc = "pipe"
        /\ imageFile[run[r2].id] = "partial"

\* C2: the provider client receives the prompt the enhancer returned; the
\* store receives, the record holds and the caller gets back the prompt of
\* the request.
C2_OriginalPromptStored ==
    \A r \in Runs :
        LET x == run[r]
            original == x.body.prompt.str
        IN  /\ Called(r, "generateImage") => x.clientPrompt = x.enhanced
            /\ x.save.called => x.save.prompt = original
            /\ x.response.status = 200 =>
                /\ x.response.prompt = original
                /\ FindById(metaFile, x.response.imageId).found
                /\ FindById(metaFile, x.response.imageId).metadata.prompt = original

\* A request answered 200 whose prompt the enhancer had changed.
C2_Witness ==
    \E r \in Runs :
        /\ run[r].response.status = 200
        /\ run[r].enhanced # run[r].body.prompt.str
        /\ run[r].clientPrompt = run[r].enhanced

\* The prompt is missing, not a string, empty or whitespace-only.
PromptFailsValidation(v) == v.type # "string" \/ Trim(v.str) = <<>>

\* C3: a Generate request whose prompt fails validation is answered 400 and
\* reaches neither the enhancer, the provider nor the store.
C3_InvalidPromptIs400 ==
    \A r \in Runs :
        (run[r].pc = "done" /\ PromptFailsValidation(run[r].body.prompt)) =>
            /\ run[r].response.status = 400
            /\ run[r].calls = <<>>
            /\ ~run[r].save.called

\* C4: with the provider set to gemini, the enhancer uses the Gemini chat
\* model and image generation uses the OpenAI client.
C4_GeminiKeepsOpenAIClient ==
    (server = "running" /\ provider = "gemini") =>
        (chatModel = "gemini" /\ imageClient = "openai")

\* C5: every generateImage call on the unimplemented client ends in its
\* explicit error; the request is answered 500 and the store stays as it was.
C5_UnimplementedClientFails ==
    imageClient = "gemini" =>
        /\ StoreEmpty
        /\ \A r \in Runs :
            /\ run[r].pc \notin {"download", "open", "pipe"}
            /\ ~run[r].save.called
            /\ Called(r, "generateImage:done") =>
                /\ run[r].pc = "done"
                /\ run[r].cause = "Not implemented"
                /\ run[r].response.status = 500
                /\ run[r].response.message = Wrap(Wrap("Not implemented"))
                /\ run[r].response.imageId = 0

\* Two requests routed to the unimplemented client, both answered.
C5_Witness ==
    /\ imageClient = "gemini"
    /\ \A r \in Runs : Called(r, "generateImage:done") /\ run[r].response.status = 500

\* C6 as stated: the completion's own length decides between the original
\* prompt and the trimmed completion.
C6_CompletionLengthDecides ==
    \A r \in Runs :
        LET x == run[r] IN
        x.completion.kind = "text" =>
            /\ Len(x.completion.text) <= Len(x.req.prompt) => x.enhanced = x.req.prompt
            /\ Len(x.completion.text) > Len(x.req.prompt) =>
                    x.enhanced = Trim(x.completion.text)

\* C6, amended: the length of the trimmed completion decides: not longer than
\* the original prompt, the original prompt is returned unchanged; strictly
\* longer, the trimmed completion is returned.
C6_TrimmedLengthDecides ==
    \A r \in Runs :
        LET x == run[r] IN
        x.completion.kind = "text" =>
            /\ Len(x.completion.text) <= Len(x.req.prompt) => x.enhanced = x.req.prompt
            /\ Len(Trim(x.completion.text)) <= Len(x.req.prompt) =>
                    x.enhanced = x.req.prompt
            /\ Len(Trim(x.completion.text)) > Len(x.req.prompt) =>
                    x.enhanced = Trim(x.completion.text)

\* A completion longer than the prompt only by its surrounding white space.
C6_Witness ==
    \E r \in Runs :
        /\ run[r].completion.kind = "text"
        /\ Len(run[r].completion.text) > Len(run[r].req.prompt)
        /\ Len(Trim(run[r].completion.text)) <= Len(run[r].req.prompt)
        /\ Trim(run[r].completion.text) # run[r].req.prompt
        /\ run[r].enhanced = run[r].req.prompt

\* The image client's call ended without a URL.
ProviderFailed(r) ==
    /\ Called(r, "generateImage:done")
    /\ imageClient = "gemini" \/ run[r].api.kind = "error" \/ run[r].api.url = ""

\* FileImageRepository.save was called and rejected.
SaveFailed(r) == Called(r, "save:done") /\ run[r].response.status # 200

\* C7: when the completion call fails, the enhancer returns the original
\* prompt, the provider client is called with it, and an error response, if
\* any, comes from the provider or the store.
C7_EnhancerFailureAbsorbed ==
    \A r \in Runs :
        run[r].completion.kind = "error" =>
            /\ run[r].enhanced = run[r].req.prompt
            /\ Called(r, "generateImage")
            /\ run[r].clientPrompt = run[r].req.prompt
            /\ run[r].response.status \in {0, 200, 500}
            /\ run[r].response.status = 500 => ProviderFailed(r) \/ SaveFailed(r)

\* A request answered 200 although its completion call failed.
C7_Witness ==
    \E r \in Runs :
        run[r].completion.kind = "error" /\ run[r].response.status = 200

\* message is cause under at most three "Failed to generate image: " prefixes
Carries(message, cause) ==
    /\ cause # ""
    /\ message \in {cause, Wrap(cause), Wrap(Wrap(cause)), Wrap(Wrap(Wrap(cause)))}

\* C8: when the provider client fails, save is never invoked, no file is
\* created, and the request is answered 500 with the underlying message and
\* no id.
C8_ProviderFailureAborts ==
    \A r \in Runs :
        ProviderFailed(r) =>
            /\ run[r].pc = "done"
            /\ ~run[r].save.called
            /\ ~Called(r, "save")
            /\ run[r].id = 0
            /\ nextId = 0
            /\ StoreEmpty
            /\ run[r].response.status = 500
            /\ run[r].response.imageId = 0
            /\ run[r].api.kind = "error" => run[r].cause = run[r].api.message
            /\ Carries(run[r].response.message, run[r].cause)

\* The provider's API answered with an error and the request got its 500.
C8_Witness ==
    \E r \in Runs :
        /\ run[r].api.kind = "error"
        /\ run[r].response.status = 500
        /\ run[r].response.message = Wrap(Wrap(Wrap(run[r].api.message)))

PipelineCalls ==
    <<"enhance", "enhance:done", "generateImage", "generateImage:done", "save", "save:done">>

IsPrefix(s, t) == Len(s) <= Len(t) /\ s = SubSeq(t, 1, Len(s))

\* C9: the outbound calls of a run are a prefix of enhance, generateImage,
\* save, each made once and each started after the previous one completed.
C9_CallsInOrderOnce == \A r \in Runs : IsPrefix(run[r].calls, PipelineCalls)

\* One run ended at a failed save, another at a failed provider call.
C9_Witness ==
    \E r1, r2 \in Runs :
        /\ run[r1].pc = "done" /\ run[r1].response.status = 500
        /\ run[r1].calls = PipelineCalls
        /\ run[r2].pc = "done" /\ run[r2].response.status = 500
        /\ run[r2].calls = SubSeq(PipelineCalls, 1, 4)

IsSuccessStatus(code) == code \in 200..299
IsRedirectStatus(code) == code \in 300..399

\* A status that is neither a success nor a redirect, or a redirect without
\* a Location header.
DownloadRefused(h) ==
    /\ h.kind = "response"
    /\ \/ ~IsSuccessStatus(h.statusCode) /\ ~IsRedirectStatus(h.statusCode)
       \/ IsRedirectStatus(h.statusCode) /\ ~h.location

\* C10: a download answered with a refused status, or a redirect without
\* Location, fails the save: no metadata file is written, findById and
\* findAll return what they returned before, and the request is answered 500
\* with no id.
C10_RefusedDownloadFailsSave ==
    [][\A r \in Runs :
        (run[r].pc = "download" /\ run'[r] # run[r] /\ DownloadRefused(run'[r].http)) =>
            /\ run'[r].pc = "done"
            /\ SaveFailed(r)'
            /\ metaFile' = metaFile
            /\ metaFile'[run[r].id].kind = "none"
            /\ \A id \in Ids : FindById(metaFile', id) = FindById(metaFile, id)
            /\ \A o \in ScanOrders(metaFile) : FindAll(metaFile', o) = FindAll(metaFile, o)
            /\ run'[r].response.status = 500
            /\ run'[r].response.imageId = 0
            /\ run'[r].response.message = Wrap(run'[r].cause)]_vars

\* A save refused for a redirect without Location, beside a stored record.
C10_Witness ==
    \E r1, r2 \in Runs :
        /\ run[r1].pc = "done"
        /\ run[r1].http.statusCode = 302 /\ ~run[r1].http.location
        /\ run[r1].response.status = 500
        /\ ~FindById(metaFile, run[r1].id).found
        /\ FindById(metaFile, run[r2].id).found

\* The identifier FileImageRepository.save returned to run r, the public URL
\* derived from it, and the prompt of the request are what the 200 body holds.
SuccessBodyValues(r) ==
    /\ run[r].response.success
    /\ run[r].response.imageId = run[r].id
    /\ run[r].id \in 1..nextId
    /\ run[r].response.imageUrl = "/api/images/" \o ToString(run[r].id)
    /\ run[r].response.prompt = run[r].body.prompt.str

\* C11 as stated: a successful Generate is answered 200 with success=true and
\* the fields id, url and prompt.
C11_BodyHasIdUrlPrompt ==
    \A r \in Runs :
        run[r].response.status = 200 =>
            /\ {"success", "id", "url", "prompt"} \subseteq run[r].response.keys
            /\ SuccessBodyValues(r)

\* C11, amended: the fields of the 200 body are success, imageId, imageUrl and
\* prompt; imageId is the identifier save returned, imageUrl is '/api/images/'
\* followed by it, and prompt is the original prompt.
C11_BodyHasImageIdImageUrlPrompt ==
    \A r \in Runs :
        /\ run[r].response.status = 200 =>
            /\ run[r].response.keys = {"success", "imageId", "imageUrl", "prompt"}
            /\ SuccessBodyValues(r)
        /\ (run[r].pc = "done" /\ Called(r, "save:done") /\ run[r].cause = "") =>
                run[r].response.status = 200

\* A request whose save returned an identifier and which was answered 200.
C11_Witness ==
    \E r \in Runs :
        /\ run[r].response.status = 200
        /\ run[r].id = 1
        /\ FindById(metaFile, run[r].id).found
        /\ run[r].enhanced # run[r].body.prompt.str

\* What getById and download answer when something other than a missing
\* record or a missing image file fails.
OtherFailure(op) ==
    IF op = "getById" THEN "Failed to serve image" ELSE "Failed to download image"

\* C12: Retrieve and Download answer 404 'Image not found' when findById finds
\* no record of the id, 404 'Image file not found' when it finds one but the
\* image file is missing, 200 with the image when both are there and nothing
\* else fails, and 500 when something else fails (here: the record cannot be
\* serialised).
C12_ReadAnswers ==
    reply.op \in {"getById", "download"} =>
        LET record == FindById(metaFile, reply.id)
            file == Exists(imageFile, reply.id)
        IN  /\ ~record.found =>
                    reply.status = 404 /\ reply.error = "Image not found"
            /\ (record.found /\ ~file) =>
                    reply.status = 404 /\ reply.error = "Image file not found"
            /\ (record.found /\ file /\ ~ToJSONThrows(record.metadata)) =>
                    reply.status = 200 /\ reply.error = "" /\ reply.sent = "complete"
            /\ (record.found /\ file /\ ToJSONThrows(record.metadata)) =>
                    reply.status = 500 /\ reply.error = OtherFailure(reply.op)

\* A Download of an identifier whose record is there and whose image is not.
C12_Witness ==
    /\ reply.op = "download"
    /\ reply.status = 404
    /\ FindById(metaFile, reply.id).found
    /\ ~Exists(imageFile, reply.id)

\* A metadata file as save writes it, and one that holds something else.
WellFormed(f) == f.kind = "json" /\ f.data.createdAt.type = "iso"
Malformed(f) == f.kind # "none" /\ ~WellFormed(f)

\* C13: a malformed metadata file is treated as absent by every read and
\* never causes a failure: findById finds nothing for it, Retrieve and Download
\* answer 404, and List all answers 200 with exactly the well-formed records.
C13_MalformedTreatedAsAbsent ==
    /\ (reply.op \in {"getById", "download"} /\ Malformed(metaFile[reply.id])) =>
            /\ ~FindById(metaFile, reply.id).found
            /\ reply.status = 404
    /\ reply.op = "listAll" =>
            /\ reply.status = 200
            /\ {reply.images[i].id : i \in DOMAIN reply.images}
                    = {id \in Ids : WellFormed(metaFile[id])}
            /\ Len(reply.images) = Cardinality({id \in Ids : WellFormed(metaFile[id])})

\* C14: findAll returns exactly one record per metadata file that parses, and
\* of two records with a creation time the newer one comes first, whatever
\* order the directory scan yields the files in.
C14_OneRecordPerFileNewestFirst ==
    reply.op = "listAll" =>
        LET res == reply.found
            parseable == {id \in Ids : metaFile[id].kind = "json"}
        IN  /\ Len(res) = Cardinality(parseable)
            /\ {res[i].id : i \in DOMAIN res} = parseable
            /\ \A i, j \in DOMAIN res :
                    (/\ i < j
                     /\ ~IsInvalidDate(res[i].createdAt)
                     /\ ~IsInvalidDate(res[j].createdAt))
                        => res[i].createdAt >= res[j].createdAt

\* A Download of the identifier abc123, whose record holds the prompt
\* "A Beautiful!! Sunset@Sea", was answered with the file.
SunsetDownloaded ==
    /\ reply.op = "download"
    /\ reply.status = 200
    /\ IdText(reply.id) = Chars("abc123")
    /\ FindById(metaFile, reply.id).metadata.prompt = Chars("A Beautiful!! Sunset@Sea")

\* C17: for the stored prompt "A Beautiful!! Sunset@Sea" and the id abc123 the
\* download filename is artwork-a-beautiful--sunset-sea-abc123.png.
C17_SunsetFilenameTwoDashes ==
    SunsetDownloaded =>
        reply.filename = Chars("artwork-a-beautiful--sunset-sea-abc123.png")

\* C17, amended: the two exclamation marks and the space after them become
\* three dashes, so the download filename is
\* artwork-a-beautiful---sunset-sea-abc123.png.
C17_SunsetFilenameThreeDashes ==
    SunsetDownloaded =>
        reply.filename = Chars("artwork-a-beautiful---sunset-sea-abc123.png")

C17_Witness ==
    /\ SunsetDownloaded
    /\ reply.sent = "complete"
    /\ Len(reply.filename) > Len(Chars("artwork-abc123.png"))

\* C15: once save has returned an id, findById of that id returns a record
\* with that id and the prompt, size and quality save was called with, and a
\* createdAt between the start and the end of the save call.
C15_SaveFindByIdRoundTrip ==
    \A r \in Runs :
        (run[r].pc = "done" /\ run[r].response.status = 200) =>
            LET record == FindById(metaFile, run[r].id)
            IN  /\ record.found
                /\ record.metadata.id = run[r].id
                /\ record.metadata.prompt = run[r].save.prompt
                /\ record.metadata.size = run[r].save.size
                /\ record.metadata.quality = run[r].save.quality
                /\ run[r].save.startedAt <= record.metadata.createdAt
                /\ record.metadata.createdAt <= run[r].save.returnedAt

\* A save of a request with its own size and quality that started after the
\* epoch and took time.
C15_Witness ==
    \E r \in Runs :
        /\ run[r].pc = "done"
        /\ run[r].response.status = 200
        /\ run[r].save.size = "1792x1024"
        /\ run[r].save.quality = "hd"
        /\ 0 < run[r].save.startedAt
        /\ run[r].save.startedAt < run[r].save.returnedAt

\* C16: exists is false for an id no save was given, true once the save of
\* the id has returned, and in every state it is true exactly when the image
\* file of the id is there, whatever the metadata file holds.
C16_ExistsFollowsImageFile ==
    /\ \A id \in Ids : id > nextId => ~Exists(imageFile, id)
    /\ \A r \in Runs :
            (run[r].pc = "done" /\ run[r].response.status = 200) =>
                Exists(imageFile, run[r].id)
    /\ \A id \in Ids : Exists(imageFile, id) <=> imageFile[id] # "absent"

\* One save has returned, another one left an image without a metadata file,
\* and one id was never handed out.
C16_Witness ==
    /\ \E r \in Runs :
            /\ run[r].pc = "done"
            /\ run[r].response.status = 200
            /\ Exists(imageFile, run[r].id)
    /\ \E r \in Runs :
            /\ run[r].id # 0
            /\ Exists(imageFile, run[r].id)
            /\ ~FindById(metaFile, run[r].id).found
    /\ \E id \in Ids : id > nextId /\ ~Exists(imageFile, id)

\* C18: every request that reaches the pipeline (the enhancer, the provider
\* client or the store) has a size of ImageSize and a quality of ImageQuality.
C18_SizeAndQualityEnumerated ==
    \A r \in Runs :
        (Called(r, "enhance") \/ Called(r, "generateImage") \/ Called(r, "save")) =>
            /\ run[r].req.size \in ImageSize
            /\ run[r].req.quality \in ImageQuality

\* C19: once save has written the record of an id, no step of a Generate,
\* Retrieve, List or Download request, and no other save, changes a field of
\* that record or changes or removes the files of the id.
C19_RecordNeverChanges ==
    [][\A id \in Ids :
            metaFile[id].kind = "json" =>
                /\ metaFile'[id] = metaFile[id]
                /\ imageFile'[id] = imageFile[id]]_vars

\* The record of the first id has been read by a Download while the save of
\* another id has got as far as writing its image.
C19_Witness ==
    /\ metaFile[1].kind = "json"
    /\ imageFile[1] = "complete"
    /\ reply.op = "download" /\ reply.id = 1 /\ reply.status = 200
    /\ \E r \in Runs : run[r].id = 2 /\ imageFile[2] # "absent"

\* C20: constructing a request succeeds, with the prompt as given, when the
\* prompt has a character that is not white space, and fails with 'Prompt
\* cannot be empty' for the empty string and for a prompt of white space only.
C20_ConstructionIffNonBlank ==
    request.state # "none" =>
        IF \E i \in DOMAIN request.prompt : request.prompt[i] \notin WhiteSpace
        THEN /\ request.state = "built"
             /\ request.size \in ImageSize
             /\ request.quality \in ImageQuality
        ELSE /\ request.state = "threw"
             /\ request.message = "Prompt cannot be empty"

\* A prompt of white space only was refused.
C20_Witness ==
    /\ request.state = "threw"
    /\ Len(request.prompt) > 1
    /\ \E i \in DOMAIN request.prompt : request.prompt[i] = "\t"

\* The key of the selected provider is not set.
CredentialMissing ==
    \/ provider = "openai" /\ openaiApiKey = ""
    \/ provider = "gemini" /\ geminiApiKey = ""

\* C21: in a configuration whose selected provider has no credential the
\* process never gets to serve: start-up ends in the fatal error, no Generate
\* request is taken up and no read request is answered.
C21_NoCredentialNoService ==
    CredentialMissing =>
        /\ server \in {"boot", "fatal"}
        /\ chatModel = "none" /\ imageClient = "none"
        /\ \A r \in Runs : run[r] = IdleRun
        /\ reply = NoReply

\* Start-up has failed for gemini without its key, although the OpenAI key is set.
C21_Witness ==
    /\ server = "fatal"
    /\ provider = "gemini"
    /\ geminiApiKey = ""
    /\ openaiApiKey # ""

\* A 301 or 302 response that carries a Location header.
IsFollowedRedirect(h) ==
    h.kind = "response" /\ h.statusCode \in {301, 302} /\ h.location

C23_RecordsHaveCompleteImages ==
    /\ \A id \in Ids : FindById(metaFile, id).found => imageFile[id] = "complete"
    /\ \A order \in ScanOrders(metaFile) :
            \A i \in DOMAIN FindAll(metaFile, order) :
                imageFile[FindAll(metaFile, order)[i].id] = "complete"
    /\ reply.op = "listAll" =>
            \A i \in DOMAIN reply.images : imageFile[reply.images[i].id] = "complete"
    /\ reply.error # "Image file not found"
    /\ reply.status = 200 => reply.sent \in {"absent", "complete"}

\* A Retrieve answered with the file of a finished save while the save of
\* another request is still writing its image.
C23_Witness ==
    /\ \E r \in Runs : run[r].pc = "pipe" /\ imageFile[run[r].id] = "partial"
    /\ \E r \in Runs : run[r].pc = "done" /\ run[r].response.status = 200
    /\ reply.op = "getById" /\ reply.status = 200 /\ reply.sent = "complete"

\* An image file whose metadata file is not there.
Orphan(id) == imageFile[id] # "absent" /\ metaFile[id].kind = "none"

\* C24: an image file without a metadata file is no record to any reader:
\* exists is true for its id, but findById finds nothing, findAll lists no
\* record of the id in any scan order, and Retrieve and Download of the id
\* are answered 404 'Image not found'.
C24_OrphanImageIsNoRecord ==
    \A id \in Ids :
        Orphan(id) =>
            /\ Exists(imageFile, id)
            /\ ~FindById(metaFile, id).found
            /\ \A order \in ScanOrders(metaFile) :
                    \A i \in DOMAIN FindAll(metaFile, order) :
                        FindAll(metaFile, order)[i].id # id
            /\ (reply.op \in {"getById", "download"} /\ reply.id = id) =>
                    reply.status = 404 /\ reply.error = "Image not found"

\* A Download of the id of a save that failed after its image was written.
C24_Witness ==
    \E r \in Runs :
        /\ run[r].pc = "done"
        /\ run[r].response.status = 500
        /\ run[r].id \in Ids
        /\ imageFile[run[r].id] = "complete"
        /\ Orphan(run[r].id)
        /\ reply.op = "download" /\ reply.id = run[r].id /\ reply.status = 404

\* The characters a slug may have.
SlugCharacters ==
    {LowerCaseLetters[i] : i \in DOMAIN LowerCaseLetters}
        \cup {Digits[i] : i \in DOMAIN Digits} \cup {"-"}

\* C25: the filename of a Download that found its record is 'artwork-', the
\* slug, '-', the id and '.png'; the slug is as long as the stored prompt but
\* at most 50 characters, has only characters of a-z, 0-9 and '-', and its
\* i-th character is the i-th character of the prompt, lowercased if that is
\* a letter, kept if a digit, and a dash otherwise.
C25_FilenameIsSluggedPrompt ==
    (reply.op = "download" /\ reply.status = 200) =>
        LET prompt == FindById(metaFile, reply.id).metadata.prompt
            head == Chars("artwork-")
            tail == Chars("-") \o IdText(reply.id) \o Chars(".png")
            n == Len(reply.filename) - Len(head) - Len(tail)
            slug == SubSeq(reply.filename, Len(head) + 1, Len(head) + n)
        IN  /\ n >= 0
            /\ reply.filename = head \o slug \o tail
            /\ n = (IF Len(prompt) < SlugLength THEN Len(prompt) ELSE SlugLength)
            /\ \A i \in 1..n :
                    /\ slug[i] \in SlugCharacters
                    /\ slug[i] = (IF IsAlphaNumeric(prompt[i])
                                  THEN ToLowerCaseChar(prompt[i])
                                  ELSE "-")

\* A Download whose record has a prompt longer than the slug may be, with an
\* upper-case letter and an underscore within the part that is kept.
C25_Witness ==
    /\ reply.op = "download"
    /\ reply.status = 200
    /\ LET prompt == FindById(metaFile, reply.id).metadata.prompt
       IN  /\ Len(prompt) > SlugLength
           /\ prompt[SlugLength - 1] = "Q"
           /\ prompt[SlugLength] = "_"

\* C26: save is only ever called with the non-empty URL the provider client
\* returned; a result without a URL ends the request with the client's 'No
\* image URL returned from OpenAI' error, answered 500, before save is called
\* and without any file being created.
C26_SaveNeverGetsEmptyUrl ==
    \A r \in Runs :
        /\ run[r].save.called =>
                /\ run[r].save.imageUrl # ""
                /\ run[r].api.kind = "data"
                /\ run[r].save.imageUrl = run[r].api.url
        /\ (run[r].api.kind = "data" /\ run[r].api.url = "") =>
                /\ run[r].pc = "done"
                /\ run[r].response.status = 500
                /\ run[r].cause = "No image URL returned from OpenAI"
                /\ ~Called(r, "save")
                /\ run[r].id = 0
                /\ nextId = 0
                /\ StoreEmpty

\* A request whose enhanced prompt got a result without a URL.
C26_Witness ==
    \E r \in Runs :
        /\ run[r].api = ApiData("")
        /\ run[r].pc = "done"
        /\ Called(r, "generateImage:done")
        /\ run[r].enhanced # run[r].req.prompt

\* C27: an image file is only there after a 200; a download only goes on
\* after a 301 or 302 with a Location; a save whose download ended on any
\* other response (201, 204, 303, 307, 308, 404, 500, or a 301 or 302 without
\* Location) has failed with the error of that status and has created neither
\* file.
C27_OnlyOkWritesOnlyMovedFollowed ==
    \A r \in Runs :
        LET h == run[r].http
        IN  /\ (run[r].pc \in {"open", "pipe"}
                    \/ (run[r].id \in Ids /\ imageFile[run[r].id] # "absent")) =>
                    h.kind = "response" /\ h.statusCode = 200
            /\ (run[r].pc = "download" /\ h # NoHttp) =>
                    /\ h.kind = "response"
                    /\ h.statusCode \in {301, 302}
                    /\ h.location
            /\ (run[r].pc = "done" /\ h.kind = "response" /\ h.statusCode # 200) =>
                    /\ run[r].response.status = 500
                    /\ run[r].cause =
                            (IF h.statusCode \in {301, 302}
                             THEN "Redirect without location header"
                             ELSE "Failed to download image: " \o ToString(h.statusCode))
                    /\ imageFile[run[r].id] = "absent"
                    /\ metaFile[run[r].id].kind = "none"

\* A save whose download was answered 308 with a Location.
C27_Witness ==
    \E r \in Runs :
        /\ run[r].pc = "done"
        /\ run[r].http = HttpResponse(308, TRUE)
        /\ run[r].response.status = 500
        /\ run[r].id \in Ids
        /\ imageFile[run[r].id] = "absent"

\* C28: a Retrieve, List or Download request, answered 200, 404 or 500, and
\* the findById, findAll, exists and getImagePath calls it makes, leave every
\* image file and every metadata file as they were and hand out no identifier.
C28_ReadsLeaveStoreUnchanged ==
    [][(reply' # reply) =>
            /\ imageFile' = imageFile
            /\ metaFile' = metaFile
            /\ nextId' = nextId]_vars

\* A List that failed over a storage root with a file that is not JSON and a
\* record without a date, both still there.
C28_Witness ==
    /\ reply.op = "listAll"
    /\ reply.status = 500
    /\ \E id \in Ids : metaFile[id].kind = "garbage" /\ imageFile[id] = "complete"
    /\ \E id \in Ids : metaFile[id].kind = "json" /\ Malformed(metaFile[id])

====
